---- MODULE Spec2Model ----
(***************************************************************************)
(* The concurrent-job admission gate of analysis/webservice/NexusHandler.py *)
(* (SparkHandler, SparkHandler.SparkJobContext, AlgorithmModuleWrapper).   *)
(*                                                                         *)
(* Handlers are objects 1..nhandlers.  A handler's spark_job_stack         *)
(* attribute names a list object; set_config binds it to a new list while  *)
(* contexts of calls in flight keep the list they were built with.         *)
(* lists[h][g] is the g-th list object of handler h (0: the [] of          *)
(* __init__, g >= 1: the list built by the g-th completed set_config);     *)
(* spark_job_stack[h] and job_stack[t] say which one the attribute and the *)
(* context of thread t name.  Each calc invocation runs on a thread of its *)
(* own and takes one step per statement of the wrapper that touches shared *)
(* state; what follows the end of calc_func (__exit__, the except clause)  *)
(* touches nothing shared before the append and is one step with it.       *)
(*                                                                         *)
(* Three sequential components have specifications of their own:           *)
(* NexusHandler._mergeResults (MergeSpec), metrics/MetricsRecord.py        *)
(* (MetricsSpec) and NexusInitializerWrapper with executeInitializers      *)
(* (InitializerSpec).  Each leaves the state of the others untouched.      *)
(***************************************************************************)
EXTENDS Integers, Sequences, FiniteSets, TLC

\* ------------------------------------------------------------------ bounds
MaxThreads == 2
MaxHandlers == 2
MaxJobs == 1
\* set_config calls on a handler that was configured before, all handlers together
MaxReconfigs == 1

\* series in one _mergeResults call, entries in all of them, time values
MaxSeries == 2
MaxEntries == 3
MaxTime == 3
\* fields given to MetricsRecord, distinct keys, record_metrics calls
MaxFields == 3
MaxKeys == 2
MaxRecordings == 2
\* registered initializers, and calls of init on each
MaxInitializers == 3
MaxInitCalls == 3

\* the fallback of set_config when the option is absent
DefaultMaxConcurrentJobs == 10

Threads == 1..MaxThreads
Handlers == 1..MaxHandlers
\* the list objects of one handler, in the order they were made
ListIds == 0..(MaxReconfigs + 1)

\* ------------------------------------------------------------------ values
None == <<"None">>
SparkContext == <<"SparkContext">>
SparkContexts == {None, SparkContext}

\* "Job %s" % x
JobName(x) == <<"Job", x>>

\* An algorithm_config: Python None, a parser without spark.maxconcurrentjobs,
\* or a parser that has the option with an integer value.
NoneConfig == [isNone |-> TRUE, hasOption |-> FALSE, value |-> 0]
ConfigWithoutOption == [isNone |-> FALSE, hasOption |-> FALSE, value |-> 0]
ConfigWith(n) == [isNone |-> FALSE, hasOption |-> TRUE, value |-> n]
Configs == {NoneConfig, ConfigWithoutOption} \cup {ConfigWith(n) : n \in 0..MaxJobs}

\* The two kinds of algorithm class AlgorithmModuleWrapper distinguishes.
Classes == {"SingletonAlgorithm", "PerRequestAlgorithm"}
singleton(c) == c = "SingletonAlgorithm"

\* What a call produces: a value or an exception.
NoOutcome == <<"none", "">>
Return(v) == <<"return", v>>
Raise(e) == <<"raise", e>>
MaxConcurrentJobsReached == Raise("MaxConcurrentJobsReached")
AttributeError == Raise("AttributeError")
NexusProcessingException503 == Raise("NexusProcessingException(503)")
\* what the wrapped calc_func may do
CalcOutcomes == {Return("result"), Raise("Exception"), MaxConcurrentJobsReached}

VARIABLES
    instance_,          \* AlgorithmModuleWrapper.__instance per class (0: None)
    nhandlers,          \* handler objects constructed so far
    clazz,              \* class of each handler
    algorithm_config,   \* NexusHandler.algorithm_config
    sc,                 \* SparkHandler._sc
    spark_job_stack,    \* SparkHandler.spark_job_stack: the list object it names
    lists,              \* contents of the list objects
    pc,                 \* where each thread is inside wrapped()
    self,               \* the handler whose calc the thread called
    job_stack,          \* SparkJobContext.spark_job_stack: the list object it got
    job_name,           \* SparkJobContext.job_name
    ran,                \* calc_func was called in this invocation
    pending,            \* value or exception leaving the with block
    outcome,            \* what the caller of wrapped() got
    pool_property,      \* sc local property spark.scheduler.pool, per thread
    job_group,          \* sc job group, per thread
    resultsRaw,         \* the argument of NexusHandler._mergeResults
    resultsList,        \* what _mergeResults returned for it, and for it reversed
    fields,             \* the list MetricsRecord was constructed from
    fields_,            \* MetricsRecord._fields, an OrderedDict
    kwargs,             \* the named amounts of the last record_metrics call
    added,              \* per field object, the addends its add() was called with
    logged,             \* the lines print_metrics gave to logger.info
    hasBeenRun,         \* NexusInitializerWrapper.__hasBeenRun per wrapper
    init_calls,         \* NexusInitializerWrapper.init calls so far, per wrapper
    inits,              \* how often the wrapped class's init was executed
    init_outcome        \* how the last NexusInitializerWrapper.init call ended

handlerVars == <<instance_, nhandlers, clazz, algorithm_config, sc, spark_job_stack>>
threadVars == <<pc, self, job_stack, job_name, ran, pending, outcome>>
sparkVars == <<pool_property, job_group>>
gateVars == <<handlerVars, lists, threadVars, sparkVars>>
mergeVars == <<resultsRaw, resultsList>>
metricsVars == <<fields, fields_, kwargs, added, logged>>
initializerVars == <<hasBeenRun, init_calls, inits, init_outcome>>
\* the state of the components a step of the admission gate does not touch
otherVars == <<mergeVars, metricsVars, initializerVars>>
vars == <<gateVars, otherVars>>

\* ------------------------------------------------------------------ SparkHandler
\* a faulty variant: xrange(1, max_concurrent_jobs + 2)
NewJobStackOneMore(n) == [x \in 1..(n + 1) |-> JobName(x)]

\* list(["Job %s" % x for x in xrange(1, max_concurrent_jobs + 1)])
NewJobStack(n) == [x \in 1..n |-> JobName(x)]

\* algorithm_config.getint(...) if has_section and has_option else 10
max_concurrent_jobs(cfg) == IF cfg.hasOption THEN cfg.value ELSE DefaultMaxConcurrentJobs

\* a faulty variant: pop(0)
PopFirst(s) == s[1]
\* a faulty variant: the last item is read and stays in the list
PopRestKeepsItem(s) == s

\* list.pop(): the last item, and the list without it
PopItem(s) == s[Len(s)]
PopRest(s) == SubSeq(s, 1, Len(s) - 1)

\* faulty variants: __exit__ returns nothing; __exit__ appends twice
ExitStackLeaks(s, name) == s
ExitStackTwice(s, name) == IF name # None THEN Append(Append(s, name), name) ELSE s

\* SparkJobContext.__exit__
ExitStack(s, name) == IF name # None THEN Append(s, name) ELSE s

\* a faulty variant: no except clause
TranslateNothing(o) == o

\* except MaxConcurrentJobsReached: raise NexusProcessingException(code=503, ...)
Translate(o) == IF o = MaxConcurrentJobsReached THEN NexusProcessingException503 ELSE o

\* A list object that no attribute and no context names is garbage; its
\* contents are dropped.  current: the handlers' attributes; who, held: the
\* contexts' handler and list.
Collect(ls, current, who, held) ==
    [h \in Handlers |-> [i \in ListIds |->
        IF i = current[h] \/ \E t \in Threads : who[t] = h /\ held[t] = i
        THEN ls[h][i] ELSE <<>>]]

\* a faulty variant: the pool starts with the default number of slots
InitialJobStackOfTen == NewJobStack(DefaultMaxConcurrentJobs)
\* SparkHandler.__init__: self.spark_job_stack = []
InitialJobStack == <<>>

\* No handler has been constructed and no request is running.
NoHandlers ==
    /\ instance_ = [c \in Classes |-> 0]
    /\ nhandlers = 0
    /\ clazz = [h \in Handlers |-> "none"]
    /\ algorithm_config = [h \in Handlers |-> NoneConfig]
    /\ sc = [h \in Handlers |-> None]
    /\ spark_job_stack = [h \in Handlers |-> 0]
    /\ lists = [h \in Handlers |-> [i \in ListIds |-> IF i = 0 THEN InitialJobStack ELSE <<>>]]
    /\ pc = [t \in Threads |-> "idle"]
    /\ self = [t \in Threads |-> 0]
    /\ job_stack = [t \in Threads |-> 0]
    /\ job_name = [t \in Threads |-> None]
    /\ ran = [t \in Threads |-> FALSE]
    /\ pending = [t \in Threads |-> NoOutcome]
    /\ outcome = [t \in Threads |-> NoOutcome]
    /\ pool_property = [t \in Threads |-> None]
    /\ job_group = [t \in Threads |-> None]

\* _mergeResults has not been called.
Calls == {"given", "reversed"}
NotCalled == <<"not called">>
NoMerge ==
    /\ resultsRaw = <<>>
    /\ resultsList = [w \in Calls |-> NotCalled]

\* No MetricsRecord has been constructed.
NotLogged == <<"not logged">>
NoMetrics ==
    /\ fields = <<>>
    /\ fields_ = <<>>
    /\ kwargs = <<>>
    /\ added = <<>>
    /\ logged = NotLogged

\* AVAILABLE_INITIALIZERS, in the order of the list
Initializers == 1..MaxInitializers
\* NexusInitializerWrapper.__init__: __hasBeenRun = False
NoInitializerRun ==
    /\ hasBeenRun = [w \in Initializers |-> FALSE]
    /\ init_calls = [w \in Initializers |-> 0]
    /\ inits = [w \in Initializers |-> 0]
    /\ init_outcome = [w \in Initializers |-> NoOutcome]

Init == NoHandlers /\ NoMerge /\ NoMetrics /\ NoInitializerRun

\* SparkHandler.set_config raises AttributeError on None (None.has_section)
\* before anything is assigned.
set_config_raises(cfg) == cfg.isNone

\* SparkHandler.set_config on handler h, not raising: the attribute names a
\* new list of the configured size.
set_config_stack(h, cfg) ==
    Collect([lists EXCEPT ![h][spark_job_stack[h] + 1] = NewJobStack(max_concurrent_jobs(cfg))],
            [spark_job_stack EXCEPT ![h] = @ + 1], self, job_stack)

\* AlgorithmModuleWrapper.instance(algorithm_config, sc) when it constructs:
\* the singleton branch with no instance yet, or the per-request branch.
\* SparkHandler.__init__ leaves spark_job_stack = [], _sc = None and
\* algorithm_config = None; an AttributeError of set_config is swallowed.
Instance(c, cfg, s) ==
    /\ nhandlers < MaxHandlers
    /\ singleton(c) => instance_[c] = 0
    /\ LET h == nhandlers + 1
       IN  /\ nhandlers' = h
           /\ clazz' = [clazz EXCEPT ![h] = c]
           /\ instance_' = IF singleton(c) THEN [instance_ EXCEPT ![c] = h] ELSE instance_
           /\ IF set_config_raises(cfg)
              THEN UNCHANGED <<spark_job_stack, lists, algorithm_config>>
              ELSE /\ spark_job_stack' = [spark_job_stack EXCEPT ![h] = @ + 1]
                   /\ lists' = set_config_stack(h, cfg)
                   /\ algorithm_config' = [algorithm_config EXCEPT ![h] = cfg]
           \* the per-request branch calls self.__instance.set_spark_context,
           \* on the wrapper's None: AttributeError, swallowed
           /\ sc' = IF singleton(c) THEN [sc EXCEPT ![h] = s] ELSE sc
    /\ UNCHANGED <<threadVars, sparkVars>>
    /\ UNCHANGED otherVars

\* set_config calls so far that replaced a configured list
RECURSIVE Reconfigs(_)
Reconfigs(n) == IF n = 0 THEN 0
                ELSE Reconfigs(n - 1) + (IF spark_job_stack[n] > 1 THEN spark_job_stack[n] - 1 ELSE 0)

\* SparkHandler.set_config called on an existing handler
SetConfig(h, cfg) ==
    /\ h <= nhandlers
    /\ ~set_config_raises(cfg)
    /\ spark_job_stack[h] >= 1 => Reconfigs(MaxHandlers) < MaxReconfigs
    /\ spark_job_stack' = [spark_job_stack EXCEPT ![h] = @ + 1]
    /\ lists' = set_config_stack(h, cfg)
    /\ algorithm_config' = [algorithm_config EXCEPT ![h] = cfg]
    /\ UNCHANGED <<instance_, nhandlers, clazz, sc, threadVars, sparkVars>>
    /\ UNCHANGED otherVars

\* SparkHandler.set_spark_context, called with a Spark context on a handler
\* that has none yet
SetSparkContext(h, s) ==
    /\ h <= nhandlers
    /\ sc[h] = None
    /\ sc' = [sc EXCEPT ![h] = s]
    /\ UNCHANGED <<instance_, nhandlers, clazz, algorithm_config, spark_job_stack, lists,
                   threadVars, sparkVars>>
    /\ UNCHANGED otherVars

\* wrapped() is called on handler h: SparkHandler.SparkJobContext(self.spark_job_stack)
Call(t, h) ==
    /\ pc[t] = "idle"
    /\ h <= nhandlers
    /\ pc' = [pc EXCEPT ![t] = "enter"]
    /\ self' = [self EXCEPT ![t] = h]
    /\ job_stack' = [job_stack EXCEPT ![t] = spark_job_stack[h]]
    /\ UNCHANGED <<handlerVars, lists, job_name, ran, pending, outcome, sparkVars>>
    /\ UNCHANGED otherVars

\* the list object the thread's context holds
Stack(t) == lists[self[t]][job_stack[t]]

\* SparkJobContext.__enter__; on IndexError the with body and __exit__ are
\* skipped and the except clause of wrapped() answers 503.
Enter(t) ==
    /\ pc[t] = "enter"
    /\ IF Stack(t) # <<>>
       THEN /\ job_name' = [job_name EXCEPT ![t] = PopItem(Stack(t))]
            /\ lists' = [lists EXCEPT ![self[t]][job_stack[t]] = PopRest(Stack(t))]
            /\ pc' = [pc EXCEPT ![t] = "bind_pool"]
            /\ UNCHANGED <<pending, outcome>>
       ELSE /\ pending' = [pending EXCEPT ![t] = MaxConcurrentJobsReached]
            /\ outcome' = [outcome EXCEPT ![t] = Translate(MaxConcurrentJobsReached)]
            /\ pc' = [pc EXCEPT ![t] = "done"]
            /\ UNCHANGED <<job_name, lists>>
    /\ UNCHANGED <<handlerVars, self, job_stack, ran, sparkVars>>
    /\ UNCHANGED otherVars

\* a faulty variant: the slot is returned to the list the handler's attribute
\* names at the time of the release
LeaveToCurrentPool(t, o) ==
    /\ pending' = [pending EXCEPT ![t] = o]
    /\ lists' = [lists EXCEPT ![self[t]][spark_job_stack[self[t]]] = ExitStack(@, job_name[t])]
    /\ outcome' = [outcome EXCEPT ![t] = Translate(o)]
    /\ pc' = [pc EXCEPT ![t] = "done"]

\* The with block of wrapped() is left with value or exception o:
\* SparkJobContext.__exit__ returns the slot, the except clause turns a
\* MaxConcurrentJobsReached into the 503 error, and the caller has the result.
Leave(t, o) ==
    /\ pending' = [pending EXCEPT ![t] = o]
    /\ lists' = [lists EXCEPT ![self[t]][job_stack[t]] = ExitStack(Stack(t), job_name[t])]
    /\ outcome' = [outcome EXCEPT ![t] = Translate(o)]
    /\ pc' = [pc EXCEPT ![t] = "done"]

\* calc_func.im_self._sc.setLocalProperty("spark.scheduler.pool", job_name)
BindPool(t) ==
    /\ pc[t] = "bind_pool"
    /\ IF sc[self[t]] = None
       THEN /\ Leave(t, AttributeError)
            /\ UNCHANGED pool_property
       ELSE /\ pool_property' = [pool_property EXCEPT ![t] = job_name[t]]
            /\ pc' = [pc EXCEPT ![t] = "bind_group"]
            /\ UNCHANGED <<pending, lists, outcome>>
    /\ UNCHANGED <<handlerVars, self, job_stack, job_name, ran, job_group>>
    /\ UNCHANGED otherVars

\* calc_func.im_self._sc.setJobGroup(job_name, "a spark job"), then calc_func
\* is called
BindGroup(t) ==
    /\ pc[t] = "bind_group"
    /\ IF sc[self[t]] = None
       THEN /\ Leave(t, AttributeError)
            /\ UNCHANGED <<job_group, ran>>
       ELSE /\ job_group' = [job_group EXCEPT ![t] = job_name[t]]
            /\ ran' = [ran EXCEPT ![t] = TRUE]
            /\ pc' = [pc EXCEPT ![t] = "calc"]
            /\ UNCHANGED <<pending, lists, outcome>>
    /\ UNCHANGED <<handlerVars, self, job_stack, job_name, pool_property>>
    /\ UNCHANGED otherVars

\* calc_func(*args, **kwargs1) returns or raises o
Calc(t, o) ==
    /\ pc[t] = "calc"
    /\ Leave(t, o)
    /\ UNCHANGED <<handlerVars, self, job_stack, job_name, ran, sparkVars>>
    /\ UNCHANGED otherVars

\* the caller has the result: the context is dropped and the request's thread
\* ends, its Spark local properties with it
Finish(t) ==
    /\ pc[t] = "done"
    /\ pc' = [pc EXCEPT ![t] = "idle"]
    /\ self' = [self EXCEPT ![t] = 0]
    /\ job_stack' = [job_stack EXCEPT ![t] = 0]
    /\ job_name' = [job_name EXCEPT ![t] = None]
    /\ ran' = [ran EXCEPT ![t] = FALSE]
    /\ pending' = [pending EXCEPT ![t] = NoOutcome]
    /\ outcome' = [outcome EXCEPT ![t] = NoOutcome]
    /\ pool_property' = [pool_property EXCEPT ![t] = None]
    /\ job_group' = [job_group EXCEPT ![t] = None]
    /\ lists' = Collect(lists, spark_job_stack, self', job_stack')
    /\ UNCHANGED handlerVars
    /\ UNCHANGED otherVars

Next ==
    \/ \E c \in Classes, cfg \in Configs, s \in SparkContexts : Instance(c, cfg, s)
    \/ \E h \in Handlers, cfg \in Configs : SetConfig(h, cfg)
    \/ \E h \in Handlers, s \in SparkContexts \ {None} : SetSparkContext(h, s)
    \/ \E t \in Threads, h \in Handlers : Call(t, h)
    \/ \E t \in Threads : Enter(t)
    \/ \E t \in Threads : BindPool(t)
    \/ \E t \in Threads : BindGroup(t)
    \/ \E t \in Threads, o \in CalcOutcomes : Calc(t, o)
    \/ \E t \in Threads : Finish(t)

Spec == Init /\ [][Next]_vars

\* The scheduler runs every thread that is inside wrapped(), and the wrapped
\* computation terminates.
FairSpec ==
    Spec /\ \A t \in Threads :
        WF_vars(BindPool(t) \/ BindGroup(t) \/ (\E o \in CalcOutcomes : Calc(t, o)))

\* ------------------------------------------------------------------ NexusHandler._mergeResults
Times == 1..MaxTime
\* a time-series entry as the algorithm body produced it
Entry(t) == [time |-> t]

\* the sequences over S of at most n items
RECURSIVE SeqsUpTo(_, _)
SeqsUpTo(S, n) ==
    IF n = 0 THEN {<<>>}
    ELSE LET shorter == SeqsUpTo(S, n - 1)
         IN  shorter \cup {Append(q, x) : q \in {r \in shorter : Len(r) = n - 1}, x \in S}

\* the lists of n series with at most b entries in all; a series is a tuple
\* whose first item is its data (resultsSeries[0])
RECURSIVE SeriesLists(_, _)
SeriesLists(n, b) ==
    IF n = 0 THEN {<<>>}
    ELSE UNION {{<<(<<d>>)>> \o rest : rest \in SeriesLists(n - 1, b - Len(d))} :
                d \in SeqsUpTo({Entry(t) : t \in Times}, b)}
MergeInputs == UNION {SeriesLists(n, MaxEntries) : n \in 0..MaxSeries}

\* a faulty variant: every entry is tagged with the first series
TaggedFirst(entry, dataNum) ==
    [x \in DOMAIN entry \cup {"ds"} |-> IF x = "ds" THEN 0 ELSE entry[x]]
\* entry["ds"] = dataNum
Tagged(entry, dataNum) ==
    [x \in DOMAIN entry \cup {"ds"} |-> IF x = "ds" THEN dataNum ELSE entry[x]]

\* resultsMap after "if not frmtdTime in resultsMap: resultsMap[frmtdTime] = []"
WithKey(resultsMap, frmtdTime) ==
    IF frmtdTime \in DOMAIN resultsMap THEN resultsMap ELSE resultsMap @@ (frmtdTime :> <<>>)

\* NexusHandler._mergeDataSeries: resultsMap after the loop over resultsData
RECURSIVE mergeDataSeries(_, _, _)
mergeDataSeries(resultsData, dataNum, resultsMap) ==
    IF resultsData = <<>> THEN resultsMap
    ELSE LET entry == Head(resultsData)
             frmtdTime == entry.time
         IN  mergeDataSeries(Tail(resultsData), dataNum,
                 [WithKey(resultsMap, frmtdTime) EXCEPT ![frmtdTime] = Append(@, Tagged(entry, dataNum))])

\* key=lambda entry: entry[0]["time"]
SortKey(value) == value[1].time

\* value put into a list sorted by SortKey, behind the items that do not
\* sort after it
RECURSIVE InsertSorted(_, _)
InsertSorted(list, value) ==
    IF list = <<>> THEN <<value>>
    ELSE IF SortKey(list[Len(list)]) <= SortKey(value) THEN Append(list, value)
    ELSE Append(InsertSorted(SubSeq(list, 1, Len(list) - 1), value), list[Len(list)])

\* a faulty variant: no sort
unsorted(list) == list
\* sorted(resultsList, key=...): a stable sort
RECURSIVE sorted(_)
sorted(list) ==
    IF list = <<>> THEN <<>>
    ELSE InsertSorted(sorted(SubSeq(list, 1, Len(list) - 1)), list[Len(list)])

\* the orders in which resultsMap.iteritems() may give the keys
Orders(keys) ==
    {q \in [1..Cardinality(keys) -> keys] : \A x, y \in 1..Cardinality(keys) : q[x] = q[y] => x = y}

\* NexusHandler._resultsMapToList, iteritems() giving the keys in this order
resultsMapToList(resultsMap, order) ==
    sorted([k \in 1..Len(order) |-> resultsMap[order[k]]])

\* resultsMap after the loop of _mergeResults from series i (0-based) on
RECURSIVE mergeSeriesFrom(_, _, _)
mergeSeriesFrom(raw, i, resultsMap) ==
    IF i >= Len(raw) THEN resultsMap
    ELSE LET resultsSeries == raw[i + 1]
             resultsData == resultsSeries[1]
         IN  mergeSeriesFrom(raw, i + 1, mergeDataSeries(resultsData, i, resultsMap))

\* NexusHandler._mergeResults
mergeResults(raw, order) == resultsMapToList(mergeSeriesFrom(raw, 0, <<>>), order)

Reversed(list) == [k \in 1..Len(list) |-> list[Len(list) + 1 - k]]
\* the argument of the call: the series as given, or the same series in
\* reverse order
Argument(w) == IF w = "given" THEN resultsRaw ELSE Reversed(resultsRaw)

MergeInit ==
    /\ NoHandlers /\ NoMetrics /\ NoInitializerRun
    /\ resultsRaw \in MergeInputs
    /\ resultsList = [w \in Calls |-> NotCalled]

\* self._mergeResults(resultsRaw)
MergeResults(w, order) ==
    /\ resultsList[w] = NotCalled
    /\ resultsList' = [resultsList EXCEPT ![w] = mergeResults(Argument(w), order)]
    /\ UNCHANGED <<resultsRaw, gateVars, metricsVars, initializerVars>>

\* the keys of resultsMap when _resultsMapToList iterates over it
Keys(w) == DOMAIN mergeSeriesFrom(Argument(w), 0, <<>>)

MergeNext == \E w \in Calls : \E order \in Orders(Keys(w)) : MergeResults(w, order)

MergeSpec == MergeInit /\ [][MergeNext]_vars

\* ------------------------------------------------------------------ MetricsRecord
\* the keys fields may have, and the names record_metrics may be given:
\* name 0 is the key of no field
FieldKeys == 1..MaxKeys
Names == 0..MaxKeys
\* the amount given with a name, one per name
Amount(name) == 5 * (name + 1)

\* The field objects given to the constructor are the positions of its list;
\* object i has a key and a description of its own.
Field(key, i) == [key |-> key, description |-> <<"description", i>>]
FieldLists ==
    {[i \in 1..Len(ks) |-> Field(ks[i], i)] : ks \in SeqsUpTo(FieldKeys, MaxFields)}

\* position of key in an OrderedDict (0: absent); an item is <<key, value>>
Position(od, key) ==
    IF \E p \in 1..Len(od) : od[p][1] = key
    THEN CHOOSE p \in 1..Len(od) : od[p][1] = key
    ELSE 0

\* OrderedDict.__setitem__: a new key goes last, a key present keeps its place
SetItem(od, key, value) ==
    IF Position(od, key) = 0 THEN Append(od, <<key, value>>)
    ELSE [od EXCEPT ![Position(od, key)] = <<key, value>>]

\* MetricsRecord.__init__: the loop over fields from position i on
RECURSIVE SetFieldsFrom(_, _, _)
SetFieldsFrom(fs, i, od) ==
    IF i > Len(fs) THEN od ELSE SetFieldsFrom(fs, i + 1, SetItem(od, fs[i].key, i))

\* a faulty variant: add is called twice
FieldAddTwice(history, addend) == Append(Append(history, addend), addend)
\* field.add(addend): the field has been given one more addend
FieldAdd(history, addend) == Append(history, addend)

\* "if field_key in self._fields"
HasField(od, field_key) == Position(od, field_key) # 0

\* MetricsRecord.record_metrics: the loop over kwargs.items(), given in this
\* order, from item k on
RECURSIVE RecordFrom(_, _, _, _, _)
RecordFrom(od, kw, order, k, adds) ==
    IF k > Len(order) THEN adds
    ELSE LET field_key == order[k]
             addend == kw[field_key]
         IN  IF HasField(od, field_key)
             THEN LET field == od[Position(od, field_key)][2]
                  IN  RecordFrom(od, kw, order, k + 1, [adds EXCEPT ![field] = FieldAdd(@, addend)])
             ELSE RecordFrom(od, kw, order, k + 1, adds)

\* the named amounts a call may give
KwargsSets == {[name \in ns |-> Amount(name)] : ns \in SUBSET Names}

\* field.value(): what the field makes of the addends it was given
FieldValue(i) == added[i]
\* "{description}: {value}".format(...)
Line(i) == <<fields[i].description, ": ", FieldValue(i)>>

MetricsInit ==
    /\ NoHandlers /\ NoMerge /\ NoInitializerRun
    /\ fields \in FieldLists
    /\ fields_ = SetFieldsFrom(fields, 1, <<>>)
    /\ kwargs = <<>>
    /\ added = [i \in 1..Len(fields) |-> <<>>]
    /\ logged = NotLogged

\* MetricsRecord.record_metrics(**kw), kwargs.items() giving the names in
\* this order
RecordMetrics(kw, order) ==
    /\ logged = NotLogged
    /\ \A i \in 1..Len(fields) : Len(added[i]) < MaxRecordings
    /\ kwargs' = kw
    /\ added' = RecordFrom(fields_, kw, order, 1, added)
    /\ UNCHANGED <<fields, fields_, logged, gateVars, mergeVars, initializerVars>>

\* MetricsRecord.print_metrics: the lines given to logger.info
PrintMetrics ==
    /\ logged = NotLogged
    /\ logged' = [k \in 1..Len(fields_) |-> Line(fields_[k][2])]
    /\ UNCHANGED <<fields, fields_, kwargs, added, gateVars, mergeVars, initializerVars>>

MetricsNext ==
    \/ \E kw \in KwargsSets : \E order \in Orders(DOMAIN kw) : RecordMetrics(kw, order)
    \/ PrintMetrics

MetricsSpec == MetricsInit /\ [][MetricsNext]_vars

\* ------------------------------------------------------------------ NexusInitializerWrapper
\* what "instance = self.__clazz(); instance.init(config)" may do: init
\* returns, init raises, or the constructor raises and init is not called
ConstructorRaises == Raise("Exception in __init__")
ClassInitOutcomes == {Return(None), Raise("Exception"), ConstructorRaises}

\* the wrappers' state as one value
InitializerState ==
    [hasBeenRun |-> hasBeenRun, init_calls |-> init_calls, inits |-> inits,
     init_outcome |-> init_outcome]

\* NexusInitializerWrapper.init(config) on wrapper w, the class's init ending
\* as o when it runs.  The else branch calls self.log, which the class does
\* not define (it has the attribute __log only): AttributeError.
init(st, w, o) ==
    IF ~st.hasBeenRun[w]
    THEN [hasBeenRun |-> [st.hasBeenRun EXCEPT ![w] = TRUE],
          init_calls |-> [st.init_calls EXCEPT ![w] = @ + 1],
          inits |-> [st.inits EXCEPT ![w] = IF o = ConstructorRaises THEN @ ELSE @ + 1],
          init_outcome |-> [st.init_outcome EXCEPT ![w] = o]]
    ELSE [st EXCEPT !.init_calls[w] = @ + 1, !.init_outcome[w] = AttributeError]

\* executeInitializers(config) from wrapper w of AVAILABLE_INITIALIZERS on:
\* the list comprehension ends at the first init that raises
RECURSIVE executeInitializersFrom(_, _, _)
executeInitializersFrom(st, w, os) ==
    IF w > MaxInitializers THEN st
    ELSE LET after == init(st, w, os[w])
         IN  IF after.init_outcome[w][1] = "raise" THEN after
             ELSE executeInitializersFrom(after, w + 1, os)

\* the wrappers are in state st
SetInitializerState(st) ==
    /\ hasBeenRun' = st.hasBeenRun
    /\ init_calls' = st.init_calls
    /\ inits' = st.inits
    /\ init_outcome' = st.init_outcome

InitializerInit == NoHandlers /\ NoMerge /\ NoMetrics /\ NoInitializerRun

\* wrapper.init(config) called on one wrapper
WrapperInit(w, o) ==
    /\ init_calls[w] < MaxInitCalls
    /\ SetInitializerState(init(InitializerState, w, o))
    /\ UNCHANGED <<gateVars, mergeVars, metricsVars>>

\* executeInitializers(config)
ExecuteInitializers(os) ==
    /\ \A w \in Initializers : init_calls[w] < MaxInitCalls
    /\ SetInitializerState(executeInitializersFrom(InitializerState, 1, os))
    /\ UNCHANGED <<gateVars, mergeVars, metricsVars>>

InitializerNext ==
    \/ \E w \in Initializers, o \in ClassInitOutcomes : WrapperInit(w, o)
    \/ \E os \in [Initializers -> ClassInitOutcomes] : ExecuteInitializers(os)

InitializerSpec == InitializerInit /\ [][InitializerNext]_vars

\* ------------------------------------------------------------------ vocabulary
\* past SparkJobContext.__enter__ and not yet past __exit__
Holds(t) == pc[t] \in {"bind_pool", "bind_group", "calc"}
\* inside wrapped(), the caller still waiting
InFlight(t) == pc[t] \in {"enter", "bind_pool", "bind_group", "calc"}
Exists(h) == h <= nhandlers
\* set_config has completed on h
Configured(h) == Exists(h) /\ spark_job_stack[h] >= 1
\* set_config has completed on h exactly once
ConfiguredOnce(h) == Exists(h) /\ spark_job_stack[h] = 1
\* the slots the last completed set_config asked for
ConfiguredJobs(h) ==
    IF algorithm_config[h].hasOption THEN algorithm_config[h].value ELSE DefaultMaxConcurrentJobs
\* the list the handler's attribute names
Pool(h) == lists[h][spark_job_stack[h]]
Items(s) == {s[x] : x \in 1..Len(s)}
NoDuplicates(s) == \A x, y \in 1..Len(s) : s[x] = s[y] => x = y
\* the threads that hold a slot taken from list g of handler h
Holders(h, g) == {t \in Threads : self[t] = h /\ job_stack[t] = g /\ Holds(t)}
HoldersOf(h) == {t \in Threads : self[t] = h /\ Holds(t)}
HeldNames(h, g) == {job_name[t] : t \in Holders(h, g)}

\* ------------------------------------------------------------------ claims

\* C1: on a handler configured once by set_config with N slots, the
\* invocations holding a slot are never more than N, and an invocation whose
\* __enter__ runs while N slots are held gets MaxConcurrentJobsReached and
\* no slot.
C1_AtMostNHoldASlot ==
    [][\A h \in Handlers :
         /\ ConfiguredOnce(h)' => Cardinality(HoldersOf(h))' <= ConfiguredJobs(h)'
         /\ \A t \in Threads :
              (/\ ConfiguredOnce(h) /\ self[t] = h /\ pc[t] = "enter"
               /\ Cardinality(HoldersOf(h)) = ConfiguredJobs(h)
               /\ pc'[t] # "enter")
              => /\ pending'[t] = MaxConcurrentJobsReached
                 /\ job_name'[t] = None
                 /\ ~Holds(t)']_vars

\* C1 witness: a pool of N >= 1 slots, all N held, and an invocation that
\* tried meanwhile was turned away.
C1_Witness ==
    \E h \in Handlers : \E t \in Threads :
        /\ ConfiguredOnce(h) /\ algorithm_config[h].hasOption
        /\ ConfiguredJobs(h) >= 1
        /\ Cardinality(HoldersOf(h)) = ConfiguredJobs(h)
        /\ self[t] = h /\ pc[t] = "done" /\ pending[t] = MaxConcurrentJobsReached

\* C2: for every handler's pool, free slots plus slots held from it are the
\* configured total, the names free or held are exactly Job 1..Job N, each
\* free once or held by one invocation; and in no list, current or replaced,
\* is a name free twice, free and held, or held by two invocations.
C2_SlotsPartitioned ==
    \A h \in Handlers : Exists(h) =>
        /\ LET g == spark_job_stack[h]
               total == IF Configured(h) THEN ConfiguredJobs(h) ELSE 0
           IN  /\ Len(Pool(h)) + Cardinality(Holders(h, g)) = total
               /\ Items(Pool(h)) \cup HeldNames(h, g) = {JobName(x) : x \in 1..total}
        /\ \A g \in ListIds :
              /\ NoDuplicates(lists[h][g])
              /\ Items(lists[h][g]) \cap HeldNames(h, g) = {}
              /\ \A t1, t2 \in Holders(h, g) : job_name[t1] = job_name[t2] => t1 = t2

\* C2 witness: two invocations hold slots of one list at once while others
\* are free.
C2_Witness ==
    \E h \in Handlers : \E t1, t2 \in Threads :
        /\ t1 # t2 /\ Exists(h)
        /\ {t1, t2} \subseteq Holders(h, spark_job_stack[h])
        /\ Pool(h) # <<>>

\* C3: once no invocation on a handler is in flight, its pool has as many
\* free slots as right after configuration.
C3_NoLeak ==
    \A h \in Handlers :
        (Exists(h) /\ \A t \in Threads : self[t] = h => ~InFlight(t))
        => Len(Pool(h)) = (IF Configured(h) THEN ConfiguredJobs(h) ELSE 0)

\* C3 witness: an invocation whose computation raised has finished on a
\* pool of at least one slot and nothing else is in flight there.
C3_Witness ==
    \E h \in Handlers : \E t \in Threads :
        /\ Configured(h) /\ ConfiguredJobs(h) >= 1
        /\ self[t] = h /\ pc[t] = "done" /\ pending[t] = Raise("Exception")
        /\ \A u \in Threads : self[u] = h => ~InFlight(u)

\* C4: an invocation whose __enter__ finds the list empty ends in that step
\* with the 503 error: the computation not started, nothing bound, no list
\* changed, no slot taken; and it gets none afterwards.
C4_FullPoolFailsAtOnce ==
    [][\A t \in Threads :
         /\ (pc[t] = "enter" /\ Stack(t) = <<>> /\ pc'[t] # "enter")
            => /\ pc'[t] = "done"
               /\ outcome'[t] = NexusProcessingException503
               /\ ~ran'[t]
               /\ job_name'[t] = None
               /\ lists' = lists
               /\ pool_property' = pool_property /\ job_group' = job_group
         /\ (pc[t] = "done" /\ job_name[t] = None)
            => /\ job_name'[t] = None
               /\ pc'[t] \in {"done", "idle"}]_vars

\* C4 witness: an invocation was answered 503 by a pool of one slot that
\* another invocation holds.
C4_Witness ==
    \E h \in Handlers : \E t, u \in Threads :
        /\ Configured(h) /\ ConfiguredJobs(h) = 1
        /\ self[t] = h /\ pc[t] = "done" /\ outcome[t] = NexusProcessingException503
        /\ job_name[t] = None /\ ~ran[t]
        /\ u \in Holders(h, job_stack[t])

\* C5: when the caller gets the result of an invocation that had acquired a
\* slot, whatever the exit path, the slot is in the list it was taken from;
\* and every slot held is eventually released.
C5_ReleasedBeforeReturn ==
    /\ [][\A t \in Threads :
            (pc[t] # "done" /\ pc'[t] = "done" /\ job_name'[t] # None)
            => /\ job_name'[t] \in Items(lists'[self'[t]][job_stack'[t]])
               /\ Len(lists'[self[t]][job_stack[t]]) = Len(Stack(t)) + 1]_vars
    /\ \A t \in Threads : Holds(t) ~> ~Holds(t)

\* C5 witnesses: the three exit paths after acquisition, each with the slot
\* back in its list: return, error of calc, error of the binding step.
C5_Witness ==
    \E t1, t2 \in Threads :
        /\ pc[t1] = "done" /\ job_name[t1] # None /\ pending[t1] = Raise("Exception")
        /\ job_name[t1] \in Items(Stack(t1))
        /\ pc[t2] = "done" /\ job_name[t2] # None /\ pending[t2] = AttributeError
        /\ job_name[t2] \in Items(Stack(t2))

\* C6: the caller of an invocation whose computation ran gets exactly what
\* the computation returned or raised.
C6_OutcomeIsCalcOutcome ==
    \A t \in Threads : (pc[t] = "done" /\ ran[t]) => outcome[t] = pending[t]

\* C7: with every handler of an algorithm class configured once and alike,
\* the computations of that class running at once are never more than the
\* configured slots.
C7_ProcessWideCap ==
    \A c \in Classes : \A h \in Handlers :
        (/\ Exists(h) /\ clazz[h] = c
         /\ \A k \in Handlers :
              (Exists(k) /\ clazz[k] = c)
              => ConfiguredOnce(k) /\ algorithm_config[k] = algorithm_config[h])
        => Cardinality({t \in Threads : pc[t] = "calc" /\ clazz[self[t]] = c})
              <= ConfiguredJobs(h)

C9_ConfiguredOrDefaultSlots ==
    \A h \in Handlers : Exists(h) =>
        LET n == IF algorithm_config[h].hasOption THEN algorithm_config[h].value ELSE 10
        IN  /\ Items(Pool(h)) \cup HeldNames(h, spark_job_stack[h]) = {JobName(x) : x \in 1..n}
            /\ Len(Pool(h)) + Cardinality(Holders(h, spark_job_stack[h])) = n

\* C10: while a computation runs, the scheduling pool and the job group of
\* its thread are the name of the slot its invocation holds, and no two
\* running computations are bound to the same name.
C10_BoundToOwnSlot ==
    /\ \A t \in Threads :
          pc[t] = "calc"
          => job_name[t] # None /\ pool_property[t] = job_name[t] /\ job_group[t] = job_name[t]
    /\ \A t1, t2 \in Threads :
          (t1 # t2 /\ pc[t1] = "calc" /\ pc[t2] = "calc")
          => pool_property[t1] # pool_property[t2]

\* ------------------------------------------------------------------ time-series merge
\* the time values that occur in the series of raw
InputTimes(raw) == {t \in Times : \E i \in 1..Len(raw) : \E j \in 1..Len(raw[i][1]) : raw[i][1][j].time = t}
\* how many entries of series i (0-based) of raw have time t
InputCount(raw, i, t) == Cardinality({j \in 1..Len(raw[i + 1][1]) : raw[i + 1][1][j].time = t})
\* how many entries of a group are tagged with series i
TagCount(group, i) == Cardinality({j \in 1..Len(group) : group[j].ds = i})
Ascending(list) == \A k \in 1..(Len(list) - 1) : SortKey(list[k]) < SortKey(list[k + 1])

\* C11: what _mergeResults returns has one entry-group per distinct time
\* value of the input; a group holds exactly the input entries with its
\* time, each tagged with ds = the index of the series it came from (as
\* many tagged i as series i has entries with that time, and no others);
\* and the groups are in strictly ascending order of time.
C11_OneGroupPerTime ==
    LET raw == resultsRaw
        result == resultsList["given"]
    IN  result # NotCalled =>
            /\ Len(result) = Cardinality(InputTimes(raw))
            /\ {SortKey(result[k]) : k \in 1..Len(result)} = InputTimes(raw)
            /\ Ascending(result)
            /\ \A k \in 1..Len(result) :
                   LET group == result[k]
                       t == group[1].time
                   IN  /\ \A j \in 1..Len(group) :
                              /\ DOMAIN group[j] = {"time", "ds"}
                              /\ group[j].time = t
                              /\ group[j].ds \in 0..(Len(raw) - 1)
                       /\ \A i \in 0..(Len(raw) - 1) : TagCount(group, i) = InputCount(raw, i, t)

\* series A with one entry and series B with an entry of the same time and
\* a later one have been merged: [[A ds0, B ds1], [B ds1]]
C11_Witness ==
    /\ resultsRaw = << <<(<<Entry(1)>>)>>, <<(<<Entry(1), Entry(2)>>)>> >>
    /\ resultsList["given"] =
           << <<Tagged(Entry(1), 0), Tagged(Entry(1), 1)>>, <<Tagged(Entry(2), 1)>> >>

InRecord(i) ==
    /\ HasField(fields_, fields[i].key)
    /\ fields_[Position(fields_, fields[i].key)][2] = i
\* the last field of the constructor's list that has this key
LastWith(key) ==
    CHOOSE i \in 1..Len(fields) :
        /\ fields[i].key = key
        /\ \A j \in 1..Len(fields) : fields[j].key = key => j <= i

\* C13: a record_metrics call gives each field of the record whose key is
\* among the names its amount exactly once, leaves every other field as it
\* was, and a name that is the key of no field has no effect: no field is
\* added and nothing fails.
C13_AddsOncePerNamedField ==
    [][(kwargs' # kwargs \/ added' # added) =>
          /\ fields' = fields /\ fields_' = fields_ /\ logged' = logged
          /\ DOMAIN added' = DOMAIN added
          /\ \A i \in 1..Len(fields) :
                 added'[i] = IF InRecord(i) /\ fields[i].key \in DOMAIN kwargs'
                             THEN Append(added[i], kwargs'[fields[i].key])
                             ELSE added[i]]_vars

\* fields a and b, and record_metrics was called with a and a name that is
\* no key: a has its amount, b has nothing
C13_Witness ==
    /\ Len(fields) = 2 /\ fields[1].key = 1 /\ fields[2].key = 2
    /\ DOMAIN kwargs = {0, 1}
    /\ added = << <<Amount(1)>>, <<>> >>

\* C14: a lookup by key gives the last field the constructor was given with
\* that key, and print_metrics renders every field of the constructor's
\* list, in the order of that list, as a "description: value" line.
C14_AllFieldsInListOrder ==
    /\ \A key \in FieldKeys :
           HasField(fields_, key) => fields_[Position(fields_, key)][2] = LastWith(key)
    /\ logged # NotLogged => logged = [i \in 1..Len(fields) |-> Line(i)]

\* ------------------------------------------------------------------ reconfiguration
\* C15: a set_config step leaves the handler's pool a fresh list of exactly
\* N free slots Job 1..Job N, whatever is held at the time; a slot taken
\* from a list that has since been replaced is returned to that list and
\* the new pool is not changed by it; and the current pool never has more
\* than N entries or a slot name twice.
C15_ReconfigurationResetsPool ==
    [][/\ \A h \in Handlers :
             /\ spark_job_stack'[h] # spark_job_stack[h] =>
                    lists'[h][spark_job_stack'[h]] =
                        [x \in 1..(IF algorithm_config'[h].hasOption THEN algorithm_config'[h].value
                                   ELSE DefaultMaxConcurrentJobs) |-> JobName(x)]
             /\ (Exists(h) /\ spark_job_stack'[h] >= 1) =>
                    /\ Len(lists'[h][spark_job_stack'[h]]) <=
                           (IF algorithm_config'[h].hasOption THEN algorithm_config'[h].value
                            ELSE DefaultMaxConcurrentJobs)
                    /\ \A x, y \in 1..Len(lists'[h][spark_job_stack'[h]]) :
                           lists'[h][spark_job_stack'[h]][x] = lists'[h][spark_job_stack'[h]][y] => x = y
       /\ \A t \in Threads :
             (Holds(t) /\ pc'[t] = "done") =>
                 /\ lists'[self[t]][job_stack[t]] = Append(lists[self[t]][job_stack[t]], job_name[t])
                 /\ job_stack[t] # spark_job_stack[self[t]] => Pool(self[t])' = Pool(self[t])]_vars

\* an invocation that took its slot before a reconfiguration has returned
\* it to the replaced list, and the new pool has its N slots
C15_Witness ==
    \E t \in Threads :
        /\ pc[t] = "done" /\ job_name[t] # None
        /\ job_stack[t] >= 1 /\ job_stack[t] < spark_job_stack[self[t]]
        /\ job_name[t] \in Items(lists[self[t]][job_stack[t]])
        /\ ConfiguredJobs(self[t]) >= 1
        /\ Len(Pool(self[t])) = ConfiguredJobs(self[t])

\* C16: a handler on which set_config has never completed has an empty
\* pool, and an invocation on it holds no slot at any time and ends with
\* the 503 error without the computation having been started.
C16_UnconfiguredHandlerRefuses ==
    \A h \in Handlers :
        (Exists(h) /\ ~Configured(h)) =>
            /\ Pool(h) = <<>>
            /\ \A t \in Threads :
                   self[t] = h =>
                       /\ pc[t] \in {"enter", "done"}
                       /\ ~ran[t] /\ job_name[t] = None
                       /\ pool_property[t] = None /\ job_group[t] = None
                       /\ pc[t] = "done" => outcome[t] = NexusProcessingException503

\* an invocation on a handler that instance() built with a None config has
\* ended with the 503 error
C16_Witness ==
    \E t \in Threads :
        /\ pc[t] = "done" /\ self[t] # 0
        /\ ~Configured(self[t])
        /\ algorithm_config[self[t]] = NoneConfig
        /\ outcome[t] = NexusProcessingException503

\* C17: the handler AlgorithmModuleWrapper.instance(algorithm_config, sc)
\* constructs has that configuration and that Spark context afterwards,
\* whether its class is a singleton or not.
C17_InstanceHandsOverContext ==
    [][\A c \in Classes, cfg \in Configs, s \in SparkContexts :
          Instance(c, cfg, s) =>
              /\ sc'[nhandlers + 1] = s
              /\ algorithm_config'[nhandlers + 1] = cfg]_vars

\* ------------------------------------------------------------------ initializers
\* C18: over any sequence of NexusInitializerWrapper.init calls the class's
\* init is executed at most once; hasBeenRun is true from the first call on,
\* whether or not that init raised; and a repeated call does not run init
\* again and completes without raising.
C18_InitOnceAndRepeatsReturn ==
    \A w \in Initializers :
        /\ inits[w] <= 1
        /\ hasBeenRun[w] <=> init_calls[w] >= 1
        /\ init_calls[w] >= 2 => init_outcome[w] = Return(None)
====
